---- MODULE Spec2Model ----
(***************************************************************************)
(* diff2commit: the `generate` command (cli.py), the provider adapters     *)
(* (ai_providers/*.py), the interactive editor (ui/interactive.py), the    *)
(* usage ledger (usage_tracker.py) and the git collaborator                *)
(* (git_operations.py), as a state machine of one run of `generate`.       *)
(*                                                                         *)
(* A run is sequential.  It is cut into steps at the places where the      *)
(* program blocks on its environment (configuration, repository, backend   *)
(* call, back-off sleep, terminal, commit): the environment's answer is    *)
(* the input of the step, and a process-level interrupt may arrive         *)
(* between any two of them.                                                *)
(*                                                                         *)
(* Spec is a run of `generate`; SpecLive is Spec with the fairness of a     *)
(* process that keeps executing.  SpecCalls is one call, outside a run, of *)
(* a function of the adapters, the validator or the git collaborator, or a *)
(* series of operations of the ledger, on arguments drawn from bounded     *)
(* sets.                                                                   *)
(***************************************************************************)
EXTENDS Integers, Sequences, FiniteSets, TLC

(***************************************************************************)
(* Bounds of the model.                                                    *)
(***************************************************************************)
MaxCount == 2        \* --count values explored: 1..MaxCount (the option allows 1..5)

(***************************************************************************)
(* Program constants.                                                      *)
(***************************************************************************)
StopAfterAttempt == 3     \* tenacity stop_after_attempt(3)
ExitError == 1            \* typer.Exit(1)
ExitInterrupt == 130      \* typer.Exit(130)
ExitOk == 0               \* typer.Exit(0) / normal return

(***************************************************************************)
(* Text.  A text is a sequence of one-character strings.  BS is the        *)
(* backslash and NL the newline character: the adapters split and join on  *)
(* the two-character literal written "\\n" in the source (a backslash      *)
(* followed by the letter n), which is not the newline character.          *)
(***************************************************************************)
BS == "\\"
NL == "\n"
SepLit == <<BS, "n">>
Whitespace == {" ", NL}

\* the positions of s that hold a character other than whitespace
Inked(s) == {k \in 1..Len(s) : s[k] \notin Whitespace}

LStrip(s) ==
    IF Inked(s) = {} THEN <<>>
    ELSE SubSeq(s, CHOOSE k \in Inked(s) : \A j \in Inked(s) : k <= j, Len(s))

RStrip(s) ==
    IF Inked(s) = {} THEN <<>>
    ELSE SubSeq(s, 1, CHOOSE k \in Inked(s) : \A j \in Inked(s) : k >= j)

\* str.strip()
Strip(s) == RStrip(LStrip(s))

\* str.startswith(p)
StartsWith(s, p) == Len(s) >= Len(p) /\ SubSeq(s, 1, Len(p)) = p

\* least index from i on at which the separator occurs in s, 0 when it does not
FindSep(s, i) ==
    LET at == {k \in i..(Len(s) - 1) : s[k] = SepLit[1] /\ s[k + 1] = SepLit[2]}
    IN  IF at = {} THEN 0 ELSE CHOOSE k \in at : \A j \in at : k <= j

\* str.split("\\n"): the pieces between the occurrences of the separator
RECURSIVE Split(_)
Split(s) ==
    LET i == FindSep(s, 1)
    IN  IF i = 0 THEN <<s>>
        ELSE <<SubSeq(s, 1, i - 1)>> \o Split(SubSeq(s, i + 2, Len(s)))

\* "\\n".join(parts)
RECURSIVE Join(_)
Join(parts) ==
    IF parts = <<>> THEN <<>>
    ELSE IF Len(parts) = 1 THEN parts[1]
    ELSE parts[1] \o SepLit \o Join(Tail(parts))

FooterMarkers ==
    { <<"B","R","E","A","K","I","N","G"," ","C","H","A","N","G","E",":">>,
      <<"R","e","f","s",":">>,
      <<"C","l","o","s","e","s",":">> }

IsFooterMarker(line) == \E m \in FooterMarkers : StartsWith(Strip(line), m)

\* (variant: the subject is cut to max_len characters, with no ellipsis)
TruncateNoEllipsis(subject, max_len) ==
    IF Len(subject) > max_len THEN SubSeq(subject, 1, max_len) ELSE subject

\* subject[: max_len - 3] + "..." when the subject is too long
Truncate(subject, max_len) ==
    IF Len(subject) > max_len
    THEN SubSeq(subject, 1, max_len - 3) \o <<".", ".", ".">>
    ELSE subject

(***************************************************************************)
(* Optional values: None is the empty tuple, a present value v is <<v>>.   *)
(***************************************************************************)
NoneT == <<>>
Some(v) == <<v>>

(***************************************************************************)
(* Model names, as texts.                                                  *)
(***************************************************************************)
Gpt4 == <<"g","p","t","-","4">>
GeminiPro == <<"g","e","m","i","n","i","-","p","r","o">>
ClaudeDefault ==
    <<"c","l","a","u","d","e","-","3","-","s","o","n","n","e","t",
      "-","2","0","2","4","0","2","2","9">>
Models == {Gpt4, GeminiPro}

Upper == <<"A","B","C","D","E","F","G","H","I","J","K","L","M",
           "N","O","P","Q","R","S","T","U","V","W","X","Y","Z">>
LowerOf == <<"a","b","c","d","e","f","g","h","i","j","k","l","m",
             "n","o","p","q","r","s","t","u","v","w","x","y","z">>

LowerChar(c) ==
    IF \E k \in 1..26 : Upper[k] = c
    THEN LowerOf[CHOOSE k \in 1..26 : Upper[k] = c]
    ELSE c

\* str.lower()
Lower(s) == [k \in 1..Len(s) |-> LowerChar(s[k])]

\* sub in s
Contains(s, sub) ==
    \E k \in 1..(Len(s) - Len(sub) + 1) : SubSeq(s, k, k + Len(sub) - 1) = sub

(***************************************************************************)
(* AIProvider._calculate_cost.  Costs are counted in units of 2.5e-7 USD,  *)
(* in which every price of the table (per token: price per 1K / 1000) is a *)
(* whole number.  The table is searched in the order it is written.        *)
(***************************************************************************)
Pricing ==
    << [name |-> Gpt4,                                        input |-> 120, output |-> 240],
       [name |-> <<"g","p","t","-","4","-","t","u","r","b","o">>,
                                                              input |-> 40,  output |-> 120],
       [name |-> <<"g","p","t","-","3",".","5","-","t","u","r","b","o">>,
                                                              input |-> 2,   output |-> 6],
       [name |-> <<"c","l","a","u","d","e","-","3","-","o","p","u","s">>,
                                                              input |-> 60,  output |-> 300],
       [name |-> <<"c","l","a","u","d","e","-","3","-","s","o","n","n","e","t">>,
                                                              input |-> 12,  output |-> 60],
       [name |-> <<"c","l","a","u","d","e","-","3","-","h","a","i","k","u">>,
                                                              input |-> 1,   output |-> 5],
       [name |-> GeminiPro,                                   input |-> 1,   output |-> 2],
       [name |-> <<"g","e","m","i","n","i","-","u","l","t","r","a">>,
                                                              input |-> 4,   output |-> 8] >>

DefaultRate == 8     \* 0.002 / 1000 USD per token

\* int(tokens * 0.7) in IEEE double arithmetic: the floor of 7*tokens/10, one
\* less at the token counts (below 1000) where the product rounds below the
\* integer; int(tokens * 0.3) is the floor of 3*tokens/10 there.
InputTokens(tokens) ==
    IF tokens \in {90, 170, 180, 330, 340, 350, 360,
                   650, 660, 670, 680, 690, 700, 710, 720, 730}
    THEN (7 * tokens) \div 10 - 1
    ELSE (7 * tokens) \div 10

\* (variant: the output share wraps around at 10)
OutputTokensWrapped(tokens) == (3 * tokens) % 10

OutputTokens(tokens) == (3 * tokens) \div 10

CalculateCost(tokens, model) ==
    LET hits == {k \in 1..Len(Pricing) : Contains(Lower(model), Pricing[k].name)}
    IN  IF hits # {}
        THEN LET k == CHOOSE k \in hits : \A j \in hits : k <= j
             IN  InputTokens(tokens) * Pricing[k].input
                   + OutputTokens(tokens) * Pricing[k].output
        ELSE tokens * DefaultRate

(***************************************************************************)
(* CommitMessage and its format().                                         *)
(***************************************************************************)
CommitMessage(subject, body, footer, raw, tokens, cost, provider, model) ==
    [subject |-> subject, body |-> body, footer |-> footer, raw |-> raw,
     tokens_used |-> tokens, cost |-> cost, provider |-> provider, model |-> model]

\* truthiness of an Optional[str]: present and not empty
Truthy(opt) == opt # NoneT /\ opt[1] # <<>>

Format(msg) ==
    Join(<<msg.subject>>
         \o (IF Truthy(msg.body) THEN <<<<>>, msg.body[1]>> ELSE <<>>)
         \o (IF Truthy(msg.footer) THEN <<<<>>, msg.footer[1]>> ELSE <<>>))

(***************************************************************************)
(* The adapters' _parse_message.                                           *)
(***************************************************************************)
\* one pass of the line classification loop of the OpenAI and OpenRouter adapters
RECURSIVE ClassifyLines(_, _)
ClassifyLines(lines, st) ==
    IF lines = <<>> THEN st
    ELSE LET line == Head(lines)
             next ==
               IF st.subject = <<>> /\ Strip(line) # <<>>
               THEN [st EXCEPT !.subject = Strip(line)]
               ELSE IF ~st.in_footer /\ IsFooterMarker(line)
               THEN [st EXCEPT !.in_footer = TRUE,
                               !.footer_lines = Append(@, Strip(line))]
               ELSE IF st.in_footer
               THEN [st EXCEPT !.footer_lines = Append(@, Strip(line))]
               ELSE IF Strip(line) # <<>> \/ st.in_body
               THEN [st EXCEPT !.in_body = TRUE, !.body_lines = Append(@, line)]
               ELSE st
         IN  ClassifyLines(Tail(lines), next)

JoinedOrNone(lines) == IF lines # <<>> THEN Some(Strip(Join(lines))) ELSE NoneT

ParseOpenAI(provider, text, tokens, cost, model, max_len) ==
    LET st == ClassifyLines(Split(Strip(text)),
                [subject |-> <<>>, body_lines |-> <<>>, footer_lines |-> <<>>,
                 in_body |-> FALSE, in_footer |-> FALSE])
    IN  CommitMessage(Truncate(st.subject, max_len), JoinedOrNone(st.body_lines),
                      JoinedOrNone(st.footer_lines), text, tokens, cost, provider, model)

ParseFirstLine(provider, text, tokens, cost, model, max_len) ==
    LET lines == Split(Strip(text))
        rest == Tail(lines)
        body_lines == SelectSeq(rest, LAMBDA l : Strip(l) # <<>>)
    IN  CommitMessage(Truncate(Strip(lines[1]), max_len), JoinedOrNone(body_lines),
                      NoneT, text, tokens, cost, provider, model)

ParseMessage(provider, text, tokens, cost, model, max_len) ==
    IF provider \in {"openai", "openrouter"}
    THEN ParseOpenAI(provider, text, tokens, cost, model, max_len)
    ELSE ParseFirstLine(provider, text, tokens, cost, model, max_len)

\* len(text.split()): the number of maximal runs of non-whitespace characters
RECURSIVE WordCount(_)
WordCount(s) ==
    LET t == LStrip(s)
    IN  IF t = <<>> THEN 0
        ELSE LET stops == {k \in 1..Len(t) : t[k] \in Whitespace}
             IN  IF stops = {} THEN 1
                 ELSE 1 + WordCount(SubSeq(t, CHOOSE k \in stops : \A j \in stops : k <= j, Len(t)))

(***************************************************************************)
(* The adapters.  A backend call ends with one signal: a reply, a          *)
(* rate-limit error, an authentication error, another API / network / HTTP *)
(* error, or a response without the expected text content.                 *)
(***************************************************************************)
FailSignals == {"ratelimit", "auth", "error", "malformed"}
Signals == {"ok"} \cup FailSignals

CliProviders == {"openai", "anthropic", "gemini"}      \* get_provider's table
Adapters == CliProviders \cup {"openrouter"}

\* self.model, as each adapter's constructor sets it
AdapterModel(provider, ai_model) ==
    CASE provider = "anthropic" ->
           IF Contains(ai_model, <<"c","l","a","u","d","e">>) THEN ai_model ELSE ClaudeDefault
      [] provider = "gemini" ->
           IF Contains(ai_model, <<"g","e","m","i","n","i">>) THEN ai_model ELSE GeminiPro
      [] OTHER -> ai_model

\* (variant: no constructor checks the credential)
ConstructorNeverRaises(provider, has_key) == FALSE

\* the constructor's check of the credential: openrouter substitutes its own key
ConstructorRaises(provider, has_key) == provider # "openrouter" /\ ~has_key

\* The exception class that leaves the body of generate_commit_message, inside
\* the retry decorator, for a failing backend call.  RateLimitError is an
\* OpenAIError (openai) and an Exception (anthropic), so the adapters' own
\* except clauses turn it into RuntimeError before the decorator sees it.
BodyRaises(provider, signal) ==
    CASE provider \in {"openai", "openrouter"} ->
           (CASE signal = "auth" -> "ValueError"
              [] signal \in {"ratelimit", "error"} -> "RuntimeError"
              [] OTHER -> IF provider = "openai" THEN "AttributeError" ELSE "ValueError")
      [] provider = "anthropic" ->
           IF signal = "auth" THEN "ValueError" ELSE "RuntimeError"
      [] OTHER -> "RuntimeError"

\* the decorator's retry predicate: retry_if_exception_type(RateLimitError) for
\* openai, openrouter and anthropic; none given (any Exception) for gemini
RetryIf(provider, exc) ==
    IF provider = "gemini" THEN TRUE ELSE exc = "RateLimitError"

\* (variant: the decorator allows one call more)
RetriesAgainOnceMore(provider, exc, tries) ==
    RetryIf(provider, exc) /\ tries < StopAfterAttempt + 1

\* does the decorator call the body again after its tries-th call raised exc
RetriesAgain(provider, exc, tries) ==
    RetryIf(provider, exc) /\ tries < StopAfterAttempt

\* what generate_commit_message raises to its caller when it gives up:
\* the decorator wraps the last exception in RetryError once the attempts of a
\* retried exception are exhausted (reraise is not set)
CallRaises(provider, exc) ==
    IF RetryIf(provider, exc) THEN "RetryError" ELSE exc

\* token count of a reply: reported by the API, or estimated from words (gemini)
TokensOf(provider, reply, diff_words) ==
    IF provider = "gemini" THEN WordCount(Strip(reply.text)) + diff_words
    ELSE reply.tokens

IsFreeTier(provider, model) ==
    provider = "openrouter" /\ Contains(Lower(model), <<"f","r","e","e">>)

\* the CommitMessage generate_commit_message returns for a reply
MessageOf(provider, model, reply, diff_words, max_len) ==
    LET text == Strip(reply.text)
        tokens == TokensOf(provider, reply, diff_words)
        cost == IF IsFreeTier(provider, model) THEN 0 ELSE CalculateCost(tokens, model)
    IN  ParseMessage(provider, text, tokens, cost, model, max_len)

(***************************************************************************)
(* The interactive editor.  interactive.py imports `console` from the      *)
(* package diff2commit.ui, where the name is bound to the submodule        *)
(* diff2commit.ui.console (ui/__init__.py imports it first).  The module   *)
(* defines print_error, print_info, ... and the Console instance           *)
(* `console`, but no attribute `print`: every console.print(...) of        *)
(* interactive.py raises AttributeError.                                   *)
(***************************************************************************)
ConsoleHasPrint == FALSE

Return(v) == [kind |-> "return", value |-> v, exc |-> "none"]
Raise(e) == [kind |-> "raise", value |-> NoneT, exc |-> e]

\* What the user does at the terminal during a review: the number chosen at
\* "Select a message" (0: interrupt or end of input), the action chosen, the
\* lines typed into the editor up to the closing empty line, whether the
\* editor was interrupted, and the answer to "Use this message?".
UserInputs(n) ==
    { u \in [select : 0..n,
             action : {"a", "e", "r", "c", "interrupt"},
             lines : { <<<<"o","k">>>>, <<<<" ">>>> },
             edit_interrupted : BOOLEAN,
             confirm : BOOLEAN] :
        /\ u.action # "e" => (u.lines = <<<<"o","k">>>> /\ ~u.edit_interrupted)
        /\ (u.action # "e" \/ u.edit_interrupted) => u.confirm }

\* InteractiveEditor._edit_message, current_message being given
EditMessage(current, u) ==
    IF ~ConsoleHasPrint THEN Raise("AttributeError")
    ELSE IF u.edit_interrupted THEN Return(NoneT)
    ELSE LET edited == Strip(Join(u.lines))
         IN  IF edited # <<>> /\ u.confirm THEN Return(Some(edited)) ELSE Return(NoneT)

\* InteractiveEditor._get_user_action
GetUserAction(current, u) ==
    IF ~ConsoleHasPrint THEN Raise("AttributeError")
    ELSE CASE u.action = "a" -> Return(Some(current))
           [] u.action = "e" -> EditMessage(current, u)
           [] OTHER -> Return(NoneT)

\* InteractiveEditor._select_message: the index chosen, 0 for None
SelectMessage(messages, u) ==
    IF ~ConsoleHasPrint THEN Raise("AttributeError")
    ELSE Return(<<u.select>>)

\* InteractiveEditor.review_and_edit
ReviewAndEdit(messages, u) ==
    IF messages = <<>>
    THEN (IF ~ConsoleHasPrint THEN Raise("AttributeError") ELSE Return(NoneT))
    ELSE IF Len(messages) > 1
    THEN LET selected == SelectMessage(messages, u)
         IN  IF selected.kind = "raise" THEN selected
             ELSE IF selected.value[1] = 0 THEN Return(NoneT)
             ELSE GetUserAction(messages[selected.value[1]], u)
    ELSE GetUserAction(messages[1], u)

(***************************************************************************)
(* The git collaborator.  A repository is described by: whether HEAD       *)
(* exists, whether the index differs from HEAD (something is staged; with  *)
(* no HEAD, whether the index holds anything), and whether the working     *)
(* tree differs from the index.                                            *)
(***************************************************************************)
RepoStates ==
    { r \in [has_head : BOOLEAN, staged : BOOLEAN, dirty : BOOLEAN, diff_words : {3}] :
        r.dirty => (~r.has_head /\ r.staged) }
NoRepo == [has_head |-> FALSE, staged |-> FALSE, dirty |-> FALSE, diff_words |-> 0]

\* the paths of the entries of a DiffIndex, and the text `git diff --staged`
\* prints (index against HEAD, or against the empty tree when there is no
\* HEAD): both are empty exactly when the two sides do not differ
DiffPaths(differs) == IF differs THEN <<"a.py">> ELSE <<>>
DiffText ==
    <<"d", "i", "f", "f", NL, "-", "-", "-", NL, "+", "+", "+", NL, "-", "x", NL, "+", "y">>
GitDiffStaged(r) == IF r.staged THEN DiffText ELSE <<>>

\* str.count(pat), for a pattern that cannot overlap itself
Count(text, pat) ==
    Cardinality({ k \in 1..(Len(text) - Len(pat) + 1) :
                    SubSeq(text, k, k + Len(pat) - 1) = pat })

Max0(n) == IF n < 0 THEN 0 ELSE n

DiffSummary(files_changed, additions, deletions, diff_text, is_empty) ==
    [raised |-> FALSE, files_changed |-> files_changed, additions |-> additions,
     deletions |-> deletions, diff_text |-> diff_text, is_empty |-> is_empty]

\* the exception that leaves get_staged_diff: no summary is returned
NoSummary == [raised |-> TRUE, is_empty |-> TRUE]

\* get_staged_diff from the DiffIndex on: `if not diff_index` and the rest
SummaryOf(r, index_differs) ==
    IF ~index_differs
    THEN DiffSummary(<<>>, 0, 0, <<>>, TRUE)
    ELSE LET full_diff == GitDiffStaged(r)
             additions == Count(full_diff, SepLit \o <<"+">>)
                            - Count(full_diff, SepLit \o <<"+", "+", "+">>)
             deletions == Count(full_diff, SepLit \o <<"-">>)
                            - Count(full_diff, SepLit \o <<"-", "-", "-">>)
         IN  DiffSummary(DiffPaths(TRUE), Max0(additions), Max0(deletions),
                         full_diff, FALSE)

\* (variant: the summary is never empty)
GetStagedDiffNeverEmpty(r, lib_git_error) == SummaryOf(r, TRUE)

\* GitOperations.get_staged_diff.  With no HEAD the first index.diff("HEAD")
\* raises inside GitPython: lib_git_error tells whether that is the
\* GitCommandError the method catches (it then diffs the index against the
\* working tree) or another exception, which leaves the method.
GetStagedDiff(r, lib_git_error) ==
    IF r.has_head
    THEN SummaryOf(r, r.staged)
    ELSE IF lib_git_error
    THEN SummaryOf(r, r.staged /\ r.dirty)
    ELSE NoSummary

(***************************************************************************)
(* The usage ledger: the rows of the table `usage`, oldest first.          *)
(***************************************************************************)
UsageRecord(provider, model, tokens, cost, success, this_month) ==
    [provider |-> provider, model |-> model, tokens |-> tokens, cost |-> cost,
     success |-> success, this_month |-> this_month]

\* (variant: the INSERT replaces the rows of the table)
RecordUsageReplacing(rows, provider, model, tokens, cost, success) ==
    <<UsageRecord(provider, model, tokens, cost, success, TRUE)>>

\* UsageTracker.record_usage: one INSERT, stamped with the current time
RecordUsage(rows, provider, model, tokens, cost, success) ==
    Append(rows, UsageRecord(provider, model, tokens, cost, success, TRUE))

RECURSIVE SumCost(_)
SumCost(rows) == IF rows = <<>> THEN 0 ELSE Head(rows).cost + SumCost(Tail(rows))

\* the cost column of get_monthly_usage, before rounding
MonthlyCost(rows) == SumCost(SelectSeq(rows, LAMBDA r : r.this_month))

\* round(cost, 4): to the nearest 1e-4 USD, which is 400 cost units
Round4(cost) == ((cost + 200) \div 400) * 400

\* UsageTracker.check_monthly_limit
CheckMonthlyLimit(rows, limit) ==
    [exceeded |-> Round4(MonthlyCost(rows)) >= limit, cost |-> Round4(MonthlyCost(rows))]

CostLimit == 20000000      \* a ceiling of 5.0 USD, in cost units

\* what the usage table may hold when a run opens it
InitialLedgers ==
    { <<>>,
      <<UsageRecord("openai", Gpt4, 100, CostLimit, TRUE, FALSE),
        UsageRecord("openai", Gpt4, 100, CostLimit, TRUE, TRUE)>> }

(***************************************************************************)
(* One run of `generate`.                                                  *)
(***************************************************************************)
VARIABLES
    pc,          \* where the run is: "start", "git", "staged", "provider",
                 \* "call", "backoff", "after", "final", "committed", "done"
    opt,         \* the command-line options of the run
    config,      \* the configuration object (bound |-> FALSE before load_config returns)
    repo,        \* the repository
    provider,    \* the adapter: [name, model], name "none" before construction
    tracking,    \* usage_tracker is not None
    ledger,      \* the rows of the usage table
    ledgerBase,  \* the number of rows the table held when the run opened it
    i,           \* generation attempts finished (the loop variable)
    tries,       \* backend calls made by the current generate_commit_message
    sig,         \* history: while the decorator sleeps, the signal it retries on
    messages,    \* the list `messages`
    last,        \* history: of the attempt finished last, the signal of its last
                 \* backend call, its number of backend calls, what it raised
    okMsgs,      \* history: the CommitMessages the adapter returned, in order
    final,       \* final_message, once selected
    reviewed,    \* history: the list review_and_edit was called with
    commits,     \* the messages commit_changes was called with and committed
    commitCalls, \* the number of calls of commit_changes
    backendCalls, \* history: the number of backend calls made by the run
    errors,      \* the print_error / print_warning messages printed
    shown,       \* the message printed back with console.print(final_message)
    raised,      \* the exception that ended the run, "none" if none did
    escaped,     \* the exception that left `generate` other than typer.Exit
    exitCode,    \* the process exit code, -1 while running
    call,        \* a function called on its own: its name and arguments (NoCall in a run)
    result       \* what that call returned or raised, NoneT before it has

vars == <<pc, opt, config, repo, provider, tracking, ledger, ledgerBase, i, tries, sig,
          messages, last, okMsgs, final, reviewed, commits, commitCalls, backendCalls, errors, shown, raised,
          escaped, exitCode, call, result>>

NoCall == [fn |-> "none"]

MaxSubjectLength == 72          \* default of max_subject_length
LeastSubjectLength == 50        \* ge=50
GreatestSubjectLength == 100    \* le=100

Options ==
    [review : BOOLEAN, count : 1..MaxCount, provider : {"", "gemini", "openrouter"},
     no_commit : BOOLEAN]

\* what load_config may return: the settings of the environment and the file
Configs ==
    { c \in [bound : {TRUE}, ai_provider : CliProviders, ai_model : Models,
             has_key : BOOLEAN, track_usage : BOOLEAN, limit : {NoneT, Some(CostLimit)}] :
        c.limit # NoneT => (c.track_usage /\ c.has_key) }

Unbound ==
    [bound |-> FALSE, ai_provider |-> "openai", ai_model |-> Gpt4, has_key |-> FALSE,
     track_usage |-> FALSE, limit |-> NoneT]

\* the replies a backend may give
Replies ==
    { [text |-> <<"f","i","x",":"," ","a">>, tokens |-> 10],
      [text |-> <<"a", BS, "n", BS, "n", "b", " ", "c">>, tokens |-> 90],
      [text |-> <<>>, tokens |-> 0] }

NoAttempt == [signal |-> "none", calls |-> 0, exc |-> "none"]

\* the variables of a run that neither `generate` has touched yet nor a
\* function called on its own touches
RunInit ==
    /\ pc = "start"
    /\ config = Unbound
    /\ provider = [name |-> "none", model |-> <<>>]
    /\ tracking = FALSE
    /\ ledgerBase = 0
    /\ i = 0
    /\ tries = 0
    /\ sig = "none"
    /\ messages = <<>>
    /\ last = NoAttempt
    /\ okMsgs = <<>>
    /\ final = NoneT
    /\ reviewed = NoneT
    /\ commitCalls = 0
    /\ backendCalls = 0
    /\ errors = {}
    /\ shown = NoneT
    /\ raised = "none"
    /\ escaped = "none"
    /\ exitCode = -1

Init ==
    /\ RunInit
    /\ opt \in Options
    /\ repo = NoRepo
    /\ ledger = <<>>
    /\ commits = <<>>
    /\ call = NoCall
    /\ result = NoneT

\* a handler that prints msg with print_error / print_warning and raises
\* typer.Exit(code); exc is the exception it handles ("none": no exception)
ExitWith(code, msg, exc) ==
    /\ pc' = "done"
    /\ exitCode' = code
    /\ errors' = errors \cup {msg}
    /\ raised' = exc
    /\ escaped' = escaped

\* the handler `except Exception as e` at the end of generate (cli.py 213-219):
\* it prints the error and then reads config.verbose, which raises
\* UnboundLocalError when load_config itself failed and `config` was never bound
OuterExcept(exc) ==
    /\ pc' = "done"
    /\ raised' = exc
    /\ errors' = errors \cup {"Unexpected error"}
    /\ escaped' = IF config.bound THEN "none" ELSE "UnboundLocalError"
    /\ exitCode' = ExitError

\* ---- cli.py 69-85: load the configuration, apply the overrides
LoadConfig ==
    /\ UNCHANGED <<call, result>>
    /\ pc = "start"
    /\ \E c \in Configs :
         IF opt.provider # "" /\ opt.provider \notin CliProviders
         THEN /\ config' = c
              /\ ExitWith(ExitError, "Invalid provider", "none")
         ELSE /\ config' = IF opt.provider # "" THEN [c EXCEPT !.ai_provider = opt.provider]
                           ELSE c
              /\ pc' = "git"
              /\ UNCHANGED <<errors, raised, escaped, exitCode>>
    /\ UNCHANGED <<opt, repo, provider, tracking, ledger, ledgerBase, i, tries, sig, messages,
                   last, okMsgs, final, reviewed, commits, commitCalls, backendCalls, shown>>

\* load_config raises (a setting fails validation)
LoadConfigFails ==
    /\ UNCHANGED <<call, result>>
    /\ pc = "start"
    /\ OuterExcept("ValidationError")
    /\ UNCHANGED <<opt, config, repo, provider, tracking, ledger, ledgerBase, i, tries, sig,
                   messages, last, okMsgs, final, reviewed, commits, commitCalls, backendCalls, shown>>

\* ---- cli.py 87-92: GitOperations()
InitGit ==
    /\ UNCHANGED <<call, result>>
    /\ pc = "git"
    /\ \E r \in RepoStates : repo' = r
    /\ pc' = "staged"
    /\ UNCHANGED <<opt, config, provider, tracking, ledger, ledgerBase, i, tries, sig, messages,
                   last, okMsgs, final, reviewed, commits, commitCalls, backendCalls, errors, shown, raised, escaped,
                   exitCode>>

InitGitFails ==
    /\ UNCHANGED <<call, result>>
    /\ pc = "git"
    /\ ExitWith(ExitError, "Not a git repository", "InvalidGitRepositoryError")
    /\ UNCHANGED <<opt, config, repo, provider, tracking, ledger, ledgerBase, i, tries, sig,
                   messages, last, okMsgs, final, reviewed, commits, commitCalls, backendCalls, shown>>

\* ---- cli.py 100-114: has_staged_changes(), get_staged_diff()
CheckStaged ==
    /\ UNCHANGED <<call, result>>
    /\ pc = "staged"
    /\ \E lib_git_error \in BOOLEAN :
         LET d == GetStagedDiff(repo, lib_git_error)
         IN  IF d.raised THEN OuterExcept("BadName")
             ELSE IF d.is_empty
             THEN ExitWith(ExitError, "No staged changes found", "none")
             ELSE /\ pc' = "provider"
                  /\ UNCHANGED <<errors, raised, escaped, exitCode>>
    /\ UNCHANGED <<opt, config, repo, provider, tracking, ledger, ledgerBase, i, tries, sig,
                   messages, last, okMsgs, final, reviewed, commits, commitCalls, backendCalls, shown>>

\* ---- cli.py 116-129: get_provider(config), UsageTracker()
GetProvider ==
    /\ UNCHANGED <<call, result>>
    /\ pc = "provider"
    /\ IF ConstructorRaises(config.ai_provider, config.has_key)
       THEN /\ ExitWith(ExitError, "API key is required", "ValueError")
            /\ UNCHANGED <<provider, tracking, ledger, ledgerBase>>
       ELSE /\ provider' = [name |-> config.ai_provider,
                            model |-> AdapterModel(config.ai_provider, config.ai_model)]
            /\ tracking' = config.track_usage
            /\ \E rows \in InitialLedgers :
                 /\ ledger' = IF config.track_usage THEN rows ELSE <<>>
                 /\ ledgerBase' = IF config.track_usage THEN Len(rows) ELSE 0
            /\ pc' = "call"
            /\ UNCHANGED <<errors, raised, escaped, exitCode>>
    /\ UNCHANGED <<opt, config, repo, i, tries, sig, messages, last, okMsgs, final, reviewed,
                   commits, commitCalls, backendCalls, shown>>

\* ---- cli.py 131-172: the body of the loop `for i in range(count)`
\* (variant: the newest message is put first)
CollectedNewestFirst(msgs, msg) == <<Format(msg)>> \o msgs

\* messages.append(commit_msg.format())
Collected(msgs, msg) == Append(msgs, Format(msg))

\* the usage record of a successful attempt (cli.py 147-154)
RecordedSuccess(rows, msg) ==
    RecordUsage(rows, msg.provider, msg.model, msg.tokens_used, msg.cost, TRUE)

\* (variant: a failed attempt leaves no record)
RecordedFailureSkipped(rows, cfg) == rows

\* the usage record of a failed attempt (cli.py 163-170)
RecordedFailure(rows, cfg) ==
    RecordUsage(rows, cfg.ai_provider, cfg.ai_model, 0, 0, FALSE)

\* (variant: the loop is left after the first attempt)
AfterAttemptStops(k, count) == "after"

\* where the run goes after its k-th attempt: the next one, or past the loop
AfterAttempt(k, count) == IF k < count THEN "call" ELSE "after"

\* one backend call of generate_commit_message, and what follows it without
\* blocking: the retry decision, and when the call of the adapter is over,
\* the rest of the loop body
BackendCall ==
    /\ UNCHANGED <<call, result>>
    /\ pc = "call"
    /\ backendCalls' = backendCalls + 1
    /\ \E signal \in Signals, reply \in Replies :
         /\ signal # "ok" => reply.text = <<>>
         /\ IF signal = "ok"
            THEN LET msg == MessageOf(provider.name, provider.model, reply,
                                      repo.diff_words, MaxSubjectLength)
                 IN  /\ messages' = Collected(messages, msg)
                     /\ ledger' = IF tracking THEN RecordedSuccess(ledger, msg) ELSE ledger
                     /\ last' = [signal |-> signal, calls |-> tries + 1, exc |-> "none"]
                     /\ okMsgs' = Append(okMsgs, msg)
                     /\ i' = i + 1
                     /\ tries' = 0
                     /\ sig' = "none"
                     /\ pc' = AfterAttempt(i + 1, opt.count)
                     /\ UNCHANGED errors
            ELSE LET exc == BodyRaises(provider.name, signal)
                 IN  IF RetriesAgain(provider.name, exc, tries + 1)
                     THEN /\ tries' = tries + 1
                          /\ sig' = signal
                          /\ pc' = "backoff"
                          /\ UNCHANGED <<messages, ledger, last, okMsgs, i, errors>>
                     ELSE /\ errors' = errors \cup {"Failed to generate message"}
                          /\ ledger' = IF tracking THEN RecordedFailure(ledger, config)
                                       ELSE ledger
                          /\ last' = [signal |-> signal, calls |-> tries + 1,
                                       exc |-> CallRaises(provider.name, exc)]
                          /\ i' = i + 1
                          /\ tries' = 0
                          /\ sig' = "none"
                          /\ pc' = AfterAttempt(i + 1, opt.count)
                          /\ UNCHANGED <<messages, okMsgs>>
    /\ UNCHANGED <<opt, config, repo, provider, tracking, ledgerBase, final, reviewed, commits,
                   commitCalls, shown, raised, escaped, exitCode>>

\* the decorator's sleep between two backend calls
Backoff ==
    /\ UNCHANGED <<call, result>>
    /\ pc = "backoff"
    /\ pc' = "call"
    /\ sig' = "none"
    /\ UNCHANGED <<opt, config, repo, provider, tracking, ledger, ledgerBase, i, tries,
                   messages, last, okMsgs, final, reviewed, commits, commitCalls, backendCalls, errors, shown, raised,
                   escaped, exitCode>>

\* ---- cli.py 174-176
NoMessages ==
    /\ UNCHANGED <<call, result>>
    /\ pc = "after"
    /\ messages = <<>>
    /\ ExitWith(ExitError, "Failed to generate any commit messages", "none")
    /\ UNCHANGED <<opt, config, repo, provider, tracking, ledger, ledgerBase, i, tries, sig,
                   messages, last, okMsgs, final, reviewed, commits, commitCalls, backendCalls, shown>>

\* ---- cli.py 179-185: the review
Review ==
    /\ UNCHANGED <<call, result>>
    /\ pc = "after"
    /\ messages # <<>>
    /\ opt.review
    /\ reviewed' = Some(messages)
    /\ \E u \in UserInputs(Len(messages)) :
         LET r == ReviewAndEdit(messages, u)
         IN  IF r.kind = "raise"
             THEN OuterExcept(r.exc) /\ UNCHANGED final
             ELSE IF ~Truthy(r.value)
             THEN ExitWith(ExitOk, "Commit cancelled by user", "none") /\ UNCHANGED final
             ELSE /\ final' = r.value
                  /\ pc' = "final"
                  /\ UNCHANGED <<errors, raised, escaped, exitCode>>
    /\ UNCHANGED <<opt, config, repo, provider, tracking, ledger, ledgerBase, i, tries, sig,
                   messages, last, okMsgs, commits, commitCalls, backendCalls, shown>>

\* ---- cli.py 186-188
AutoSelect ==
    /\ UNCHANGED <<call, result>>
    /\ pc = "after"
    /\ messages # <<>>
    /\ ~opt.review
    /\ final' = Some(messages[1])
    /\ pc' = "final"
    /\ UNCHANGED reviewed
    /\ UNCHANGED <<opt, config, repo, provider, tracking, ledger, ledgerBase, i, tries, sig,
                   messages, last, okMsgs, commits, commitCalls, backendCalls, errors, shown, raised,
                   escaped, exitCode>>

\* ---- cli.py 191-193: --no-commit
ShowOnly ==
    /\ UNCHANGED <<call, result>>
    /\ pc = "final"
    /\ opt.no_commit
    /\ shown' = final
    /\ pc' = "done"
    /\ exitCode' = ExitOk
    /\ UNCHANGED <<opt, config, repo, provider, tracking, ledger, ledgerBase, i, tries, sig,
                   messages, last, okMsgs, final, reviewed, commits, commitCalls, backendCalls, errors, raised,
                   escaped>>

\* (variant: the commit leaves the index ahead of HEAD)
CommitChangesKeepsStaged(r) == [r EXCEPT !.has_head = TRUE]

\* the repository after repo.index.commit(message): HEAD is the new commit,
\* whose tree is the index
CommitChanges(r) == [r EXCEPT !.has_head = TRUE, !.staged = FALSE]

\* GitOperations.has_staged_changes
HasStagedChanges(r, lib_git_error) == ~GetStagedDiff(r, lib_git_error).is_empty

\* (variant: nothing is printed back)
PrintedBackNothing(final_message) == NoneT

\* print_info("Your message was:"); console.print(final_message)
PrintedBack(final_message) == final_message

\* (variant: the commit step is entered again)
AfterCommitAgain == "final"

\* where the run is once commit_changes has returned the commit's hash
AfterCommit == "committed"

\* ---- cli.py 195-206 and GitOperations.commit_changes
Commit ==
    /\ UNCHANGED <<call, result>>
    /\ pc = "final"
    /\ ~opt.no_commit
    /\ commitCalls' = commitCalls + 1
    /\ UNCHANGED backendCalls
    /\ \E ok \in BOOLEAN :
         IF ok
         THEN /\ commits' = Append(commits, final[1])
              /\ repo' = CommitChanges(repo)
              /\ pc' = AfterCommit
              /\ UNCHANGED <<errors, shown, raised, escaped, exitCode>>
         ELSE /\ shown' = PrintedBack(final)
              /\ ExitWith(ExitError, "Failed to commit", "GitCommandError")
              /\ UNCHANGED <<commits, repo>>
    /\ UNCHANGED <<opt, config, provider, tracking, ledger, ledgerBase, i, tries, sig,
                   messages, last, okMsgs, final, reviewed>>

\* ---- cli.py 197-200: the commit is made, report it and return
Finish ==
    /\ UNCHANGED <<call, result>>
    /\ pc = "committed"
    /\ pc' = "done"
    /\ exitCode' = ExitOk
    /\ UNCHANGED <<opt, config, repo, provider, tracking, ledger, ledgerBase, i, tries, sig,
                   messages, last, okMsgs, final, reviewed, commits, commitCalls, backendCalls, errors, shown, raised,
                   escaped>>

\* ---- cli.py 210-212: KeyboardInterrupt, wherever the run is
Interrupt ==
    /\ UNCHANGED <<call, result>>
    /\ pc # "done"
    /\ ExitWith(ExitInterrupt, "Operation cancelled by user", "KeyboardInterrupt")
    /\ UNCHANGED <<opt, config, repo, provider, tracking, ledger, ledgerBase, i, tries, sig,
                   messages, last, okMsgs, final, reviewed, commits, commitCalls, backendCalls, shown>>

Next ==
    \/ LoadConfig
    \/ LoadConfigFails
    \/ InitGit
    \/ InitGitFails
    \/ CheckStaged
    \/ GetProvider
    \/ BackendCall
    \/ Backoff
    \/ NoMessages
    \/ Review
    \/ AutoSelect
    \/ ShowOnly
    \/ Commit
    \/ Finish
    \/ Interrupt

Spec == Init /\ [][Next]_vars

(***************************************************************************)
(* The claims.                                                             *)
(***************************************************************************)
PastLoop == pc \in {"after", "final", "committed"}
NewRows == SubSeq(ledger, ledgerBase + 1, Len(ledger))
BackendCalled == i > 0 \/ tries > 0

\* C1: in every adapter a backend call answered with a rate-limit signal is
\* issued again, up to 3 calls for one generate_commit_message: an attempt
\* ends on a rate-limit signal only after 3 backend calls.
C1_RateLimitRetried ==
    last.signal = "ratelimit" => last.calls = StopAfterAttempt

\* C2: in every adapter a failure other than a rate-limit signal is not
\* retried: the decorator never sleeps for a retry after such a signal, and an
\* attempt that ends on one has made exactly one backend call since the last
\* rate-limit signal.
C2_OtherFailureNotRetried ==
    pc = "backoff" => sig = "ratelimit"

\* C3: a provider failure does not abort the batch: once the loop has begun,
\* only an interrupt ends the run before all N attempts are made, the loop is
\* left after exactly N attempts, and the messages collected are the formatted
\* results of the successful attempts, in attempt order.
C3_BatchCompletes ==
    /\ PastLoop => i = opt.count
    /\ (pc = "done" /\ provider.name # "none" /\ i < opt.count)
          => raised = "KeyboardInterrupt"
    /\ i <= opt.count
    /\ Len(okMsgs) <= i
    /\ messages = [k \in 1..Len(okMsgs) |-> Format(okMsgs[k])]

C3_Witness ==
    /\ pc = "after"
    /\ opt.count = 2
    /\ i = 2
    /\ Len(messages) = 1
    /\ last.signal = "ok"
    /\ messages[1] # <<>>

\* C4: with usage tracking enabled the run has appended exactly one usage
\* record per finished attempt: success=true with the message's tokens and
\* cost for a successful attempt, success=false with tokens 0 and cost 0 for a
\* failed one; with tracking disabled it appends none.
C4_OneRecordPerAttempt ==
    /\ tracking =>
         /\ Len(ledger) = ledgerBase + i
         /\ LET succ == SelectSeq(NewRows, LAMBDA r : r.success)
            IN  /\ Len(succ) = Len(okMsgs)
                /\ \A k \in 1..Len(succ) :
                     /\ succ[k].tokens = okMsgs[k].tokens_used
                     /\ succ[k].cost = okMsgs[k].cost
         /\ \A k \in 1..Len(NewRows) :
              ~NewRows[k].success => (NewRows[k].tokens = 0 /\ NewRows[k].cost = 0)
    /\ ~tracking => ledger = <<>>

C4_Witness ==
    /\ tracking
    /\ pc = "after"
    /\ i = 2
    /\ Len(NewRows) = 2
    /\ ~NewRows[1].success
    /\ NewRows[2].success
    /\ NewRows[2].cost > 0

C6_NoStagedAborts ==
    (repo # NoRepo /\ ~repo.staged /\ commitCalls = 0 /\ pc # "staged") =>
        /\ pc = "done"
        /\ exitCode \in {ExitError, ExitInterrupt}
        /\ exitCode = ExitError => errors # {}
        /\ provider.name = "none"
        /\ ~BackendCalled
        /\ ledger = <<>>
        /\ commits = <<>>

C6_Witness ==
    /\ pc = "done"
    /\ repo # NoRepo
    /\ repo.has_head
    /\ ~repo.staged
    /\ commitCalls = 0
    /\ exitCode = ExitError
    /\ "No staged changes found" \in errors

\* C7: a run the user interrupts, at whatever step, ends with exit code 130
\* and has made no commit.
C7_InterruptNoCommit ==
    raised = "KeyboardInterrupt" => (exitCode = ExitInterrupt /\ commits = <<>>)

\* C8: a run ended by an exception, at whatever step, configuration loading
\* included, has printed a formatted error and exits with a non-zero code, and
\* no exception leaves the handlers of generate.
C8_NoExceptionEscapes ==
    (pc = "done" /\ raised # "none") =>
        /\ escaped = "none"
        /\ errors # {}
        /\ exitCode # ExitOk

\* C9: when commit_changes fails, the run prints the final message back
\* unchanged and exits with code 1.
C9_CommitFailureShowsMessage ==
    (pc = "done" /\ raised = "GitCommandError") =>
        /\ commitCalls = 1
        /\ final # NoneT
        /\ shown = final
        /\ exitCode = ExitError
        /\ commits = <<>>

C9_Witness ==
    /\ pc = "done"
    /\ raised = "GitCommandError"
    /\ Truthy(shown)
    /\ Len(messages) = 2

\* C10: with a monthly cost ceiling configured and the month's cost in the
\* ledger at or above it when the run opens the ledger, the run warns or stops
\* before it issues a backend call.
C10_LimitEnforced ==
    (/\ tracking
     /\ config.limit # NoneT
     /\ CheckMonthlyLimit(SubSeq(ledger, 1, ledgerBase), config.limit[1]).exceeded
     /\ BackendCalled)
        => "Monthly cost limit reached" \in errors

\* C11: an adapter is not constructed without a credential.  Every adapter's
\* constructor raises when no API key is configured, except openrouter's, which
\* substitutes its built-in key; and a generate run whose configuration holds
\* no API key ends at provider construction at the latest, with exit code 1
\* (130 if interrupted), no adapter, no backend call, no usage record and no
\* commit.
C11_NoCredentialNoAdapter ==
    /\ \A p \in Adapters : ConstructorRaises(p, FALSE) <=> p # "openrouter"
    /\ \A p \in Adapters : ~ConstructorRaises(p, TRUE)
    /\ (config.bound /\ ~config.has_key /\ pc \notin {"git", "staged", "provider"}) =>
         /\ pc = "done"
         /\ exitCode = IF raised = "KeyboardInterrupt" THEN ExitInterrupt ELSE ExitError
         /\ provider.name = "none"
         /\ ~BackendCalled
         /\ ledger = <<>>
         /\ commitCalls = 0

C11_Witness ==
    /\ pc = "done"
    /\ ~config.has_key
    /\ repo.staged
    /\ raised = "ValueError"
    /\ "API key is required" \in errors
    /\ exitCode = ExitError

\* C12: every failure of generate_commit_message reaches its caller as the
\* provider error: an attempt that failed raised AIProviderError, or at least
\* the RuntimeError in which the adapters wrap a backend error, and no other
\* class.
C12_OnlyProviderError ==
    last.exc \in {"none", "AIProviderError", "RuntimeError"}

(***************************************************************************)
(* Functions called on their own.  `call` names the function and holds its *)
(* arguments, `result` what it returned; a run of `generate` is not in     *)
(* progress, and its variables keep their initial values.                  *)
(***************************************************************************)
RunVars == <<pc, opt, config, provider, tracking, ledgerBase, i, tries, sig, messages, last,
             okMsgs, final, reviewed, commitCalls, backendCalls, errors, shown, raised, escaped, exitCode>>

\* how the one live request of validate_credentials ends: accepted, rejected
\* for its credential, rejected for the rate limit, or failed otherwise (another
\* API error or HTTP status, a network error)
LiveOutcomes == {"ok", "auth", "ratelimit", "error"}

\* (variant: only a credential or rate-limit rejection gives False)
ValidateCredentialsLenient(adapter, outcome) ==
    Return(outcome \notin {"auth", "ratelimit"})

\* validate_credentials of each adapter: True when the request went through;
\* every exception of the request is caught (AuthenticationError and
\* OpenAIError; Exception for anthropic and gemini) and gives False, and
\* gemini compares the HTTP status with 200
ValidateCredentials(adapter, outcome) ==
    Return(outcome = "ok")

CredentialCalls ==
    [fn : {"validate_credentials"}, provider : Adapters, outcome : LiveOutcomes]

CallValidateCredentials ==
    /\ call.fn = "validate_credentials"
    /\ result = NoneT
    /\ result' = Some(ValidateCredentials(call.provider, call.outcome))
    /\ UNCHANGED <<RunVars, repo, ledger, commits, call>>

Pad(n) == [k \in 1..n |-> "x"]

\* a subject line of n characters (n >= 6)
Msg(n) == <<"f", "i", "x", ":", " ">> \o Pad(n - 5)

\* the values of max_subject_length explored, within the bounds of the setting
SubjectLimits == {LeastSubjectLength, MaxSubjectLength, GreatestSubjectLength}

\* subject lengths explored: a short one, and each limit and one more
SubjectLens == {7} \cup SubjectLimits \cup {m + 1 : m \in SubjectLimits}

BreakingLine ==
    <<"B","R","E","A","K","I","N","G"," ","C","H","A","N","G","E",":"," ","y">>
RefsLine == <<"R","e","f","s",":"," ","1">>

\* subject, blank line, two body lines and a BREAKING CHANGE line, the lines
\* separated by sep
RoundTrip(sep) ==
    Msg(7) \o sep \o sep \o <<"b","1">> \o sep \o <<"b","2">> \o sep \o BreakingLine

RawTexts ==
    { Msg(n) : n \in SubjectLens }
      \cup { Msg(n) \o SepLit \o SepLit \o <<"b">> : n \in SubjectLens }
      \cup { RoundTrip(<<NL>>), RoundTrip(SepLit),
             <<>>,
             <<" ">> \o Msg(7) \o <<" ">>,
             SepLit \o Msg(7),
             Msg(7) \o SepLit \o RefsLine \o SepLit \o <<"m">>,
             Msg(7) \o SepLit \o <<"b","1">> \o SepLit \o SepLit \o <<"b","2">> }

ParseCalls ==
    [fn : {"parse_message"}, adapter : Adapters, text : RawTexts, max_len : SubjectLimits]

\* message_text is stripped by generate_commit_message before it is parsed
CallParseMessage ==
    /\ call.fn = "parse_message"
    /\ result = NoneT
    /\ result' = Some(Return(ParseMessage(call.adapter, Strip(call.text), 0, 0, Gpt4,
                                          call.max_len)))
    /\ UNCHANGED <<RunVars, repo, ledger, commits, call>>

\* the subject the parser finds in the text of the call, before truncation
UncutSubject ==
    ParseMessage(call.adapter, Strip(call.text), 0, 0, Gpt4, Len(call.text) + 3).subject

C15_RoundTripParsed ==
    \A sep \in {<<NL>>, SepLit} :
        (call.fn = "parse_message" /\ call.text = RoundTrip(sep) /\ result # NoneT) =>
            LET m == result[1].value
            IN  /\ m.subject = Msg(7)
                /\ m.body = Some(<<"b","1">> \o sep \o <<"b","2">>)
                /\ m.footer # NoneT
                /\ StartsWith(m.footer[1], BreakingLine)

\* ---- CommitMessage.format called on a message
FormatMessages ==
    { CommitMessage(s, b, f, <<>>, 0, 0, "", <<>>) :
        s \in {Msg(7), <<>>},
        b \in {NoneT, Some(<<>>), Some(<<"b">>), Some(<<"b","1">> \o SepLit \o <<"b","2">>)},
        f \in {NoneT, Some(BreakingLine)} }

FormatCalls == [fn : {"format"}, msg : FormatMessages]

CallFormat ==
    /\ call.fn = "format"
    /\ result = NoneT
    /\ result' = Some(Return(Format(call.msg)))
    /\ UNCHANGED <<RunVars, repo, ledger, commits, call>>

\* C16: format() yields the subject, followed by one blank line and the body
\* when there is a body, followed by one blank line and the footer when there is
\* a footer: the parts are separated by two newline characters; a message with
\* only a subject formats to exactly the subject.
C16_BlankLineBetweenParts ==
    (call.fn = "format" /\ result # NoneT) =>
        LET m == call.msg
        IN  result[1].value =
              m.subject
                \o (IF Truthy(m.body) THEN <<NL, NL>> \o m.body[1] ELSE <<>>)
                \o (IF Truthy(m.footer) THEN <<NL, NL>> \o m.footer[1] ELSE <<>>)

\* ---- CommitMessageValidator.validate_conventional
ConventionalTypes ==
    << <<"f", "e", "a", "t">>,
       <<"f", "i", "x">>,
       <<"d", "o", "c", "s">>,
       <<"s", "t", "y", "l", "e">>,
       <<"r", "e", "f", "a", "c", "t", "o", "r">>,
       <<"p", "e", "r", "f">>,
       <<"t", "e", "s", "t">>,
       <<"b", "u", "i", "l", "d">>,
       <<"c", "i">>,
       <<"c", "h", "o", "r", "e">>,
       <<"r", "e", "v", "e", "r", "t">> >>

PastWords ==
    { <<"a", "d", "d", "e", "d">>,
      <<"f", "i", "x", "e", "d">>,
      <<"c", "h", "a", "n", "g", "e", "d">>,
      <<"u", "p", "d", "a", "t", "e", "d">> }

\* [a-z0-9-]
ScopeChars ==
    {LowerOf[k] : k \in 1..26} \cup {"0","1","2","3","4","5","6","7","8","9","-"}

\* r matches ": .+" from its start ("." is any character but the newline)
ColonThenText(r) == Len(r) >= 3 /\ r[1] = ":" /\ r[2] = " " /\ r[3] # NL

\* re.match of the type pattern.  In the raw string of the source each "\\" is
\* two backslashes, which the regular expression reads as one literal
\* backslash, and the parenthesis after it opens a group: the optional scope
\* the pattern accepts is a backslash, characters of [a-z0-9-], a backslash.
MatchesTypePattern(subject) ==
    \E k \in 1..Len(ConventionalTypes) :
        /\ StartsWith(subject, ConventionalTypes[k])
        /\ LET r == SubSeq(subject, Len(ConventionalTypes[k]) + 1, Len(subject))
           IN  \/ ColonThenText(r)
               \/ /\ Len(r) >= 1
                  /\ r[1] = BS
                  /\ \E j \in 2..(Len(r) - 1) :
                       /\ \A q \in 2..j : r[q] \in ScopeChars
                       /\ r[j + 1] = BS
                       /\ ColonThenText(SubSeq(r, j + 2, Len(r)))

\* r (lower-cased) starts with ": " and one of the past-tense words
ColonThenPastWord(r) == \E w \in PastWords : StartsWith(r, <<":", " ">> \o w)

\* re.match of the past-tense pattern, case-insensitive: a backslash, one or
\* more letters w, optionally a backslash, characters other than ")" and a
\* backslash, then ": " and a past-tense word
MatchesPastTensePattern(subject) ==
    LET l == Lower(subject)
    IN  /\ Len(l) >= 2
        /\ l[1] = BS
        /\ \E k \in 2..Len(l) :
             /\ \A q \in 2..k : l[q] = "w"
             /\ LET r == SubSeq(l, k + 1, Len(l))
                IN  \/ ColonThenPastWord(r)
                    \/ /\ Len(r) >= 1
                       /\ r[1] = BS
                       /\ \E j \in 2..(Len(r) - 1) :
                            /\ \A q \in 2..j : r[q] # ")"
                            /\ r[j + 1] = BS
                            /\ ColonThenPastWord(SubSeq(r, j + 2, Len(r)))

\* the error a check adds: none when the check passes
ErrorIf(failed, text) == IF failed THEN <<text>> ELSE <<>>

\* CommitMessageValidator.validate_conventional
ValidateConventional(message, max_subject_length) ==
    LET lines == Split(message)
        subject == lines[1]
        errs ==
            ErrorIf(~MatchesTypePattern(subject), "Subject must start with a valid type")
              \o ErrorIf(Len(subject) > max_subject_length, "Subject exceeds the maximum")
              \o ErrorIf(subject # <<>> /\ subject[Len(subject)] = ".",
                         "Subject should not end with a period")
              \o ErrorIf(MatchesPastTensePattern(subject), "Use imperative mood")
              \o ErrorIf(Len(lines) > 1 /\ lines[2] # <<>>,
                         "Separate subject from body with a blank line")
    IN  [valid |-> errs = <<>>, errors |-> errs]

FeatScoped == <<"f", "e", "a", "t", "(", "x", ")", ":", " ", "a", "d", "d", " ", "t", "h", "i", "n", "g">>
UpdatedStuff == <<"u", "p", "d", "a", "t", "e", "d", " ", "s", "t", "u", "f", "f", ".">>

ValidatedMessages ==
    { FeatScoped, UpdatedStuff,
      <<"f", "e", "a", "t", ":", " ", "a", "d", "d", " ", "t", "h", "i", "n", "g">>,
      <<"f", "e", "a", "t", ":", " ", "a", "d", "d", "e", "d", " ", "t", "h", "i", "n", "g">>,
      <<"f", "e", "a", "t", BS, "x", BS, ":", " ", "a", "d", "d", " ", "t", "h", "i", "n", "g">>,
      <<BS, "w", ":", " ", "a", "d", "d", "e", "d", " ", "x">>,
      <<BS, "W", BS, "(", BS, ":", " ", "F", "i", "x", "e", "d", " ", "x", ".">>,
      <<"f", "i", "x", ":", " ", "a", BS, "n", "b">>,
      <<"f", "i", "x", ":", " ", "a", BS, "n", BS, "n", "b">>,
      <<"f", "i", "x", ":", " ", "a", NL, "b">>,
      <<"F", "i", "x", "e", "d", ":", " ", "i", "t">>,
      <<>> }
      \cup { Msg(n) : n \in SubjectLens }
      \cup { Msg(n) \o <<".">> \o SepLit \o <<"b">> : n \in SubjectLens }

ValidateCalls ==
    [fn : {"validate_conventional"}, message : ValidatedMessages,
     max_subject_length : SubjectLimits]

CallValidateConventional ==
    /\ call.fn = "validate_conventional"
    /\ result = NoneT
    /\ result' = Some(Return(ValidateConventional(call.message, call.max_subject_length)))
    /\ UNCHANGED <<RunVars, repo, ledger, commits, call>>

\* C17: validate_conventional finds "feat(x): add thing" valid, with no
\* errors, and "updated stuff." invalid, with the missing-type-prefix error and
\* the trailing-period error.
C17_ExamplesValidated ==
    (call.fn = "validate_conventional" /\ result # NoneT) =>
        /\ call.message = FeatScoped =>
             result[1].value = [valid |-> TRUE, errors |-> <<>>]
        /\ call.message = UpdatedStuff =>
             result[1].value = [valid |-> FALSE,
                                errors |-> <<"Subject must start with a valid type",
                                             "Subject should not end with a period">>]

\* ---- UsageTracker.record_usage and check_monthly_limit called on a ledger
MaxRows == 2     \* records appended before the limit is checked: 0..MaxRows

\* costs recorded, in cost units: nothing, 0.00004 USD, 5.0 USD
RecordedCosts == {0, 160, CostLimit}

\* limits checked, in cost units: 0.00003 USD, 0.0001 USD, 5.0 USD
CheckedLimits == {120, 400, CostLimit}

LimitCalls == [fn : {"check_monthly_limit"}, limit : CheckedLimits]

\* the tables a tracker is opened on: empty, or holding a record of an earlier month
OpenedLedgers == { <<>>, <<UsageRecord("openai", Gpt4, 100, CostLimit, TRUE, FALSE)>> }

CallRecordUsage ==
    /\ call.fn = "check_monthly_limit"
    /\ result = NoneT
    /\ Len(SelectSeq(ledger, LAMBDA r : r.this_month)) < MaxRows
    /\ \E cost \in RecordedCosts, success \in BOOLEAN :
         ledger' = RecordUsage(ledger, "openai", Gpt4, 100, cost, success)
    /\ UNCHANGED <<RunVars, repo, commits, call, result>>

CallCheckMonthlyLimit ==
    /\ call.fn = "check_monthly_limit"
    /\ result = NoneT
    /\ result' = Some(Return(CheckMonthlyLimit(ledger, call.limit)))
    /\ UNCHANGED <<RunVars, repo, ledger, commits, call>>

\* C18: check_monthly_limit(limit) returns (exceeded, cost) where cost is the
\* sum of the costs recorded this month and exceeded tells whether that sum is
\* at or above the limit; it is (false, 0) when nothing was recorded this
\* month, and (true, 5.0) for limit 5.0 after one success of cost 5.0.
C18_LimitAgainstAggregate ==
    (call.fn = "check_monthly_limit" /\ result # NoneT) =>
        LET r == result[1].value
        IN  /\ r.cost = MonthlyCost(ledger)
            /\ r.exceeded = (MonthlyCost(ledger) >= call.limit)
            /\ SelectSeq(ledger, LAMBDA row : row.this_month) = <<>> =>
                 r = [exceeded |-> FALSE, cost |-> 0]

\* ---- AIProvider._calculate_cost called on a token count and a model name
MaxTokens == 200     \* token counts explored: 0..MaxTokens

CostModels ==
    { Gpt4,
      <<"G","P","T","-","4","-","T","u","r","b","o">>,
      ClaudeDefault,
      GeminiPro,
      <<"q","w","e","n">> }

CostCalls == [fn : {"calculate_cost"}, tokens : 0..MaxTokens, model : CostModels]

CallCalculateCost ==
    /\ call.fn = "calculate_cost"
    /\ result = NoneT
    /\ result' = Some(Return(CalculateCost(call.tokens, call.model)))
    /\ UNCHANGED <<RunVars, repo, ledger, commits, call>>

\* C19: for a fixed model name the estimated cost does not decrease when the
\* token count grows: the cost of t tokens is at least the cost of every
\* smaller count and at most the cost of 2t tokens, for models of the price
\* table and for models charged at the default rate.
C19_CostMonotonic ==
    (call.fn = "calculate_cost" /\ result # NoneT) =>
        /\ \A t1 \in 0..call.tokens : CalculateCost(t1, call.model) <= result[1].value
        /\ result[1].value <= CalculateCost(2 * call.tokens, call.model)
        /\ result[1].value >= 0

C19_Witness ==
    /\ call.fn = "calculate_cost"
    /\ call.tokens = 180
    /\ call.model = Gpt4
    /\ result # NoneT
    /\ result[1].value = 125 * 120 + 54 * 240
    /\ CalculateCost(179, Gpt4) < result[1].value

\* ---- GitOperations.commit_changes, then has_staged_changes, called on a repository
HexShaLength == 40     \* len(commit.hexsha): a SHA-1 in hexadecimal

\* the commit identifiers git may produce
HexShas == { [k \in 1..HexShaLength |-> d] : d \in {"0", "a", "f"} }

CommitCalls ==
    [fn : {"commit_changes"}, message : {Msg(7), <<>>}, repo : RepoStates]

\* commit_changes(message): the commit's hexsha, or GitCommandError
CallCommitChanges ==
    /\ call.fn = "commit_changes"
    /\ result = <<>>
    /\ \/ \E sha \in HexShas :
            /\ repo' = CommitChanges(repo)
            /\ commits' = Append(commits, call.message)
            /\ result' = <<Return(sha)>>
       \/ /\ result' = <<Raise("GitCommandError")>>
          /\ UNCHANGED <<repo, commits>>
    /\ UNCHANGED <<RunVars, ledger, call>>

\* has_staged_changes(), right after commit_changes returned
CallHasStagedChanges ==
    /\ call.fn = "commit_changes"
    /\ Len(result) = 1
    /\ result[1].kind = "return"
    /\ \E lib_git_error \in BOOLEAN :
         result' = Append(result, Return(HasStagedChanges(repo, lib_git_error)))
    /\ UNCHANGED <<RunVars, repo, ledger, commits, call>>

DiffCalls == [fn : {"get_staged_diff"}, repo : RepoStates]

\* get_staged_diff(): the summary, or the exception GitPython raised for a
\* HEAD that does not resolve and that `except GitCommandError` lets through
CallGetStagedDiff ==
    /\ call.fn = "get_staged_diff"
    /\ result = <<>>
    /\ \E lib_git_error \in BOOLEAN :
         LET d == GetStagedDiff(repo, lib_git_error)
         IN  result' = <<IF d.raised THEN Raise("BadName") ELSE Return(d)>>
    /\ UNCHANGED <<RunVars, repo, ledger, commits, call>>

\* C21: get_staged_diff returns a summary in every repository state, also
\* with no commit yet, and the summary satisfies is_empty = (files_changed is
\* empty and diff_text is empty); with nothing staged the summary is the
\* empty one, with zero additions and deletions.
C21_SummaryConsistent ==
    (call.fn = "get_staged_diff" /\ result # <<>>) =>
        /\ result[1].kind = "return"
        /\ LET d == result[1].value
           IN  /\ d.is_empty = (d.files_changed = <<>> /\ d.diff_text = <<>>)
               /\ ~call.repo.staged =>
                    (d.is_empty /\ d.additions = 0 /\ d.deletions = 0)

\* ---- a UsageTracker used for a series of operations on one table
RecentLimit == 50     \* LIMIT 50 of get_recent_usage

\* UsageTracker.__init__ / _init_db: CREATE TABLE IF NOT EXISTS keeps the rows
InitDb(rows) == rows

RECURSIVE SumTokens(_)
SumTokens(rows) == IF rows = <<>> THEN 0 ELSE Head(rows).tokens + SumTokens(Tail(rows))

\* UsageTracker.get_total_usage
GetTotalUsage(rows) ==
    [total_requests |-> Len(rows),
     total_tokens |-> SumTokens(rows),
     total_cost |-> Round4(SumCost(rows)),
     successful_requests |-> Len(SelectSeq(rows, LAMBDA r : r.success))]

\* UsageTracker.get_monthly_usage: WHERE timestamp >= the first day of the month
GetMonthlyUsage(rows) ==
    LET monthly == SelectSeq(rows, LAMBDA r : r.this_month)
    IN  [requests |-> Len(monthly),
         tokens |-> SumTokens(monthly),
         cost |-> Round4(SumCost(monthly))]

\* UsageTracker.get_usage_by_provider: GROUP BY provider, model ORDER BY cost
\* DESC (the order among equal costs is the database's choice)
GetUsageByProvider(rows) ==
    LET keys == { <<rows[k].provider, rows[k].model>> : k \in 1..Len(rows) }
        Group(key) == SelectSeq(rows, LAMBDA r : <<r.provider, r.model>> = key)
        Stat(key) == [provider |-> key[1], model |-> key[2],
                      requests |-> Len(Group(key)),
                      tokens |-> SumTokens(Group(key)),
                      cost |-> Round4(SumCost(Group(key)))]
        n == Cardinality(keys)
    IN  CHOOSE out \in [1..n -> { Stat(key) : key \in keys }] :
            /\ \A a, b \in 1..n : a # b => out[a] # out[b]
            /\ \A a, b \in 1..n :
                 a < b => SumCost(Group(<<out[a].provider, out[a].model>>))
                            >= SumCost(Group(<<out[b].provider, out[b].model>>))

\* UsageTracker.get_recent_usage: the rows stamped at or after the cutoff are
\* the rows from position `first` on (the clock never runs backwards); newest
\* first, RecentLimit at most, the cost rounded
GetRecentUsage(rows, first) ==
    LET n == Len(rows) - first + 1
        shown_rows == IF n > RecentLimit THEN RecentLimit ELSE n
    IN  [k \in 1..shown_rows |->
            [rows[Len(rows) - k + 1] EXCEPT !.cost = Round4(@)]]

TrackerCalls == [fn : {"usage_tracker"}]

\* the providers whose usage is recorded
RecordedProviders == {"openai", "gemini"}

TrackerRecordUsage ==
    /\ call.fn = "usage_tracker"
    /\ Len(SelectSeq(ledger, LAMBDA r : r.this_month)) < MaxRows
    /\ \E p \in RecordedProviders, cost \in RecordedCosts, success \in BOOLEAN :
         ledger' = RecordUsage(ledger, p, Gpt4, 100, cost, success)
    /\ result' = <<"record_usage", Return(NoneT)>>
    /\ UNCHANGED <<RunVars, repo, commits, call>>

TrackerReopen ==
    /\ call.fn = "usage_tracker"
    /\ ledger' = InitDb(ledger)
    /\ result' = <<"__init__", Return(NoneT)>>
    /\ UNCHANGED <<RunVars, repo, commits, call>>

TrackerGetTotalUsage ==
    /\ call.fn = "usage_tracker"
    /\ result' = <<"get_total_usage", Return(GetTotalUsage(ledger))>>
    /\ UNCHANGED <<RunVars, repo, ledger, commits, call>>

TrackerGetMonthlyUsage ==
    /\ call.fn = "usage_tracker"
    /\ result' = <<"get_monthly_usage", Return(GetMonthlyUsage(ledger))>>
    /\ UNCHANGED <<RunVars, repo, ledger, commits, call>>

TrackerGetUsageByProvider ==
    /\ call.fn = "usage_tracker"
    /\ result' = <<"get_usage_by_provider", Return(GetUsageByProvider(ledger))>>
    /\ UNCHANGED <<RunVars, repo, ledger, commits, call>>

TrackerGetRecentUsage ==
    /\ call.fn = "usage_tracker"
    /\ \E first \in 1..(Len(ledger) + 1) :
         result' = <<"get_recent_usage", Return(GetRecentUsage(ledger, first))>>
    /\ UNCHANGED <<RunVars, repo, ledger, commits, call>>

TrackerCheckMonthlyLimit ==
    /\ call.fn = "usage_tracker"
    /\ \E limit \in CheckedLimits :
         result' = <<"check_monthly_limit", Return(CheckMonthlyLimit(ledger, limit))>>
    /\ UNCHANGED <<RunVars, repo, ledger, commits, call>>

\* C22: the usage table is append-only.  Every operation of a tracker
\* (record, totals, monthly, by provider and model, recent, the limit check,
\* re-opening) keeps every stored row, in place and with its fields; a record
\* operation adds exactly one row and every other operation leaves the table
\* as it was.
C22_AppendOnly ==
    [][call.fn = "usage_tracker" =>
         /\ Len(ledger') >= Len(ledger)
         /\ SubSeq(ledger', 1, Len(ledger)) = ledger
         /\ IF result'[1] = "record_usage"
            THEN Len(ledger') = Len(ledger) + 1
            ELSE ledger' = ledger]_vars

C22_Witness ==
    /\ call.fn = "usage_tracker"
    /\ Len(ledger) = 3
    /\ ~ledger[1].this_month
    /\ ledger[2].provider = "gemini"
    /\ ledger[3].provider = "openai"
    /\ result # <<>>
    /\ result[1] = "get_usage_by_provider"
    /\ Len(result[2].value) = 2

\* ---- the body a parser returns

\* the lines of the reply after its subject line and before its first footer
\* line that are not blank
LinesOfBody(text) ==
    LET lines == Split(Strip(text))
        n == Len(lines)
        inked == { k \in 1..n : Strip(lines[k]) # <<>> }
        first == IF inked = {} THEN n + 1
                 ELSE CHOOSE k \in inked : \A j \in inked : k <= j
        markers == { k \in (first + 1)..n : IsFooterMarker(lines[k]) }
        stop == IF markers = {} THEN n + 1
                ELSE CHOOSE k \in markers : \A j \in markers : k <= j
    IN  SelectSeq(SubSeq(lines, first + 1, stop - 1), LAMBDA l : Strip(l) # <<>>)

\* C23: the body returned by the response parser of every adapter is made of
\* the non-blank lines between the subject and the start of the footer, each
\* as it stands and in order; blank lines between body lines are dropped, so
\* the body never contains an empty line.
C23_BodyIsNonBlankLines ==
    (call.fn = "parse_message" /\ result # NoneT) =>
        LET body == result[1].value.body
            expected == LinesOfBody(call.text)
        IN  /\ body = (IF expected = <<>> THEN NoneT ELSE Some(Join(expected)))
            /\ body # NoneT =>
                 \A k \in 1..Len(Split(body[1])) : Strip(Split(body[1])[k]) # <<>>

\* ---- cli.py 174-188: what follows the generation loop
LoopOver == i = opt.count /\ pc \in {"final", "committed", "done"}
                          /\ raised # "KeyboardInterrupt"

\* messages, as the loop leaves it: the successful attempts, formatted, in order
Formatted(msgs) == [k \in 1..Len(msgs) |-> Format(msgs[k])]

\* C24: after the generation loop, a run none of whose attempts succeeded
\* exits with code 1 and enters neither the review nor the commit; with at
\* least one success and review disabled the final message is the formatted
\* result of the first successful attempt; with review enabled the whole list
\* of successful messages is handed to the review.
C24_AfterLoop ==
    LoopOver =>
        /\ okMsgs = <<>> =>
             /\ exitCode = ExitError
             /\ reviewed = NoneT
             /\ final = NoneT
             /\ commitCalls = 0
        /\ (okMsgs # <<>> /\ ~opt.review) =>
             /\ final = Some(Format(okMsgs[1]))
             /\ reviewed = NoneT
        /\ (okMsgs # <<>> /\ opt.review) =>
             reviewed = Some(Formatted(okMsgs))

C24_Witness ==
    /\ LoopOver
    /\ ~opt.review
    /\ Len(okMsgs) = 2
    /\ Format(okMsgs[1]) # Format(okMsgs[2])
    /\ commits = <<Format(okMsgs[1])>>

\* C25: monthly() returns the number, the sum of the tokens and the sum of
\* the costs of exactly the records of the current month, so that none of the
\* three exceeds the corresponding value of totals(); and in totals() the
\* successful requests never exceed the total requests.
C25_MonthlyIsSumOfMonth ==
    (call.fn = "usage_tracker" /\ result # <<>> /\ result[1] = "get_monthly_usage") =>
        LET monthly == result[2].value
            totals == GetTotalUsage(ledger)
            of_month == SelectSeq(ledger, LAMBDA r : r.this_month)
        IN  /\ monthly.requests = Len(of_month)
            /\ monthly.tokens = SumTokens(of_month)
            /\ monthly.cost = SumCost(of_month)
            /\ monthly.requests <= totals.total_requests
            /\ monthly.tokens <= totals.total_tokens
            /\ monthly.cost <= totals.total_cost
            /\ totals.successful_requests <= totals.total_requests

\* C26: the usage records written during one run all carry the same
\* (provider, model) pair, for successful and failed attempts alike: a failed
\* attempt is recorded under the model the adapter uses, also when the adapter
\* replaced the configured model id by its default.
C26_OnePairPerRun ==
    \A a, b \in 1..Len(NewRows) :
        /\ NewRows[a].provider = NewRows[b].provider
        /\ NewRows[a].model = NewRows[b].model
        /\ ~NewRows[a].success => NewRows[a].model = provider.model

\* ---- the run as a process that keeps executing: it is single-threaded, and
\* each of its steps returns (the backend calls carry a timeout, the sleeps of
\* the retry decorator are bounded), so a step of the program that can be
\* taken is eventually taken
Proceed ==
    \/ LoadConfig
    \/ LoadConfigFails
    \/ InitGit
    \/ InitGitFails
    \/ CheckStaged
    \/ GetProvider
    \/ Backoff
    \/ NoMessages
    \/ Review
    \/ AutoSelect
    \/ ShowOnly
    \/ Commit
    \/ Finish

\* the backend call returns: in a run, the steps that count one more backend
\* call are the steps of BackendCall, which can be taken whenever pc = "call"
BackendReturns ==
    /\ pc = "call"
    /\ backendCalls' = backendCalls + 1

SpecLive == Spec /\ WF_vars(Proceed) /\ WF_backendCalls(BackendReturns)

\* C27: every run of generate terminates, and it issues at most 3 backend
\* calls for each generation attempt, hence at most 3 * N for N requested
\* messages, whatever the backend answers.
C27_TerminatesWithinBound ==
    /\ [](/\ tries <= StopAfterAttempt
          /\ last.calls <= StopAfterAttempt
          /\ backendCalls <= StopAfterAttempt * i + tries
          /\ backendCalls <= StopAfterAttempt * opt.count)
    /\ <>(pc = "done")

C27_Witness ==
    /\ pc = "done"
    /\ provider.name = "gemini"
    /\ opt.count = 2
    /\ okMsgs = <<>>
    /\ backendCalls = StopAfterAttempt * opt.count
    /\ exitCode = ExitError

\* C28: the message generate passes to commit_changes is never empty, with
\* review enabled or disabled, also when the backend returned an empty or
\* whitespace-only reply.
C28_CommitMessageNotEmpty ==
    /\ \A k \in 1..Len(commits) : commits[k] # <<>>
    /\ (pc = "final" /\ ~opt.no_commit) => final[1] # <<>>

\* C29: a run with --no-commit, and a run in which the user cancels, asks to
\* regenerate, or declines the edited message in the review, never calls
\* commit_changes, leaves the staged changes as they were, and exits with
\* code 0.
C29_NoCommitExitsOk ==
    (pc = "done" /\ raised # "KeyboardInterrupt" /\ i = opt.count /\ messages # <<>>
       /\ (\/ opt.no_commit
           \/ reviewed # NoneT /\ final = NoneT /\ raised = "none")) =>
        /\ commitCalls = 0
        /\ commits = <<>>
        /\ repo.staged
        /\ exitCode = ExitOk

\* ---- cli.py 73-79, 38-48: which adapter a run gets
Selected == IF opt.provider # "" THEN opt.provider ELSE config.ai_provider

\* C30: for each of the provider names openai, anthropic, gemini and
\* openrouter, selecting it by configuration or with --provider gives the run
\* the adapter of that name; any other name is rejected with an error and
\* exit code 1 before any backend call.
C30_DispatchTotal ==
    config.bound =>
        /\ Selected \in Adapters => "Invalid provider" \notin errors
        /\ provider.name # "none" => provider.name = Selected
        /\ (Selected \notin Adapters /\ pc = "done" /\ raised # "KeyboardInterrupt") =>
             (exitCode = ExitError /\ backendCalls = 0)

\* ---- the calls explored, and their specification
Calls == CredentialCalls \cup ParseCalls \cup FormatCalls \cup ValidateCalls
           \cup LimitCalls \cup CostCalls
           \cup CommitCalls \cup DiffCalls \cup TrackerCalls

CallInit ==
    /\ RunInit
    /\ opt = [review |-> FALSE, count |-> 1, provider |-> "", no_commit |-> FALSE]
    /\ call \in Calls
    /\ repo = (IF call.fn \in {"commit_changes", "get_staged_diff"} THEN call.repo ELSE NoRepo)
    /\ ledger \in (IF call.fn \in {"check_monthly_limit", "usage_tracker"} THEN OpenedLedgers ELSE {<<>>})
    /\ commits = <<>>
    /\ result = NoneT

CallNext ==
    \/ CallValidateCredentials
    \/ CallParseMessage
    \/ CallFormat
    \/ CallValidateConventional
    \/ CallRecordUsage
    \/ CallCheckMonthlyLimit
    \/ CallCalculateCost
    \/ CallCommitChanges
    \/ CallHasStagedChanges
    \/ CallGetStagedDiff
    \/ TrackerRecordUsage
    \/ TrackerReopen
    \/ TrackerGetTotalUsage
    \/ TrackerGetMonthlyUsage
    \/ TrackerGetUsageByProvider
    \/ TrackerGetRecentUsage
    \/ TrackerCheckMonthlyLimit

SpecCalls == CallInit /\ [][CallNext]_vars

====
